---- MODULE Spec2Model ----
(***************************************************************************)
(* Markdown-to-Notion uploader (netlify/functions/upload-notion.js and     *)
(* its other revisions).                                                   *)
(*                                                                         *)
(* A JavaScript string is modelled as a sequence of one-character strings, *)
(* so that trimming, prefix tests, regular-expression matches and splits   *)
(* are computed character by character.  Offsets are the 0-based offsets   *)
(* of JavaScript: the character at offset k of t is t[k+1].                *)
(***************************************************************************)
EXTENDS Integers, Sequences, FiniteSets, TLC

VARIABLES
    \* ---- inline tokenizer (processRichText / processTextFormatting)
    text,             \* the line handed to processRichText
    tokPc,            \* "start" | "done" | "doneMathOnly"
    tok,              \* the locals of processRichText, see processRichText
    \* ---- block scanner (parseMarkdownWithMath)
    markdownContent,  \* the document
    sc,               \* the locals of parseMarkdownWithMath, see InitScan
    \* ---- request handler (default export)
    request,          \* [method, json, title, markdownContent, notionToken, parentPageId]
    hpc,              \* position of the handler
    hblocks,          \* const blocks
    hi,               \* loop variable i of the batch loop
    requests,         \* remote requests issued so far, in order
    answers,          \* outcomes of the fetch calls awaited so far, in order
    response          \* the Response returned, or NoResponse

tokVars == <<text, tokPc, tok>>
scanVars == <<markdownContent, sc>>
handlerVars == <<request, hpc, hblocks, hi, requests, answers, response>>
vars == <<tokVars, scanVars, handlerVars>>

(***************************************************************************)
(* Strings                                                                 *)
(***************************************************************************)
MinOf(S) == CHOOSE x \in S : \A y \in S : x <= y
MaxOf(S) == CHOOSE x \in S : \A y \in S : x >= y

\* the character U+0060, which a TLA+ string literal cannot hold
BACKTICK == "BACKTICK"

\* White space of String.prototype.trim and of \s, over the characters used.
WhiteSpace == {" ", "\t", "\r", "\n"}
Digit == {"0", "1", "2", "3", "4", "5", "6", "7", "8", "9"}

IsSpace(c) == c \in WhiteSpace

CharAt(t, k) == IF k >= 0 /\ k < Len(t) THEN t[k + 1] ELSE ""

trim(s) ==
    LET keep == {k \in 1..Len(s) : ~IsSpace(s[k])}
    IN  IF keep = {} THEN <<>> ELSE SubSeq(s, MinOf(keep), MaxOf(keep))

Clamp(k, n) == IF k < 0 THEN 0 ELSE IF k > n THEN n ELSE k

Between(s, x, y) == IF x <= y THEN SubSeq(s, x + 1, y) ELSE SubSeq(s, y + 1, x)

substring(s, a, b) == Between(s, Clamp(a, Len(s)), Clamp(b, Len(s)))

substringFrom(s, a) == SubSeq(s, Clamp(a, Len(s)) + 1, Len(s))

startsWith(s, p) == Len(s) >= Len(p) /\ SubSeq(s, 1, Len(p)) = p

endsWith(s, p) == Len(s) >= Len(p) /\ SubSeq(s, Len(s) - Len(p) + 1, Len(s)) = p

Occurrences(s, p) == {k \in 0..(Len(s) - Len(p)) : SubSeq(s, k + 1, k + Len(p)) = p}

includes(s, p) == \E k \in 0..(Len(s) - Len(p)) : SubSeq(s, k + 1, k + Len(p)) = p

LastOf(S) == IF S = {} THEN 0 - 1 ELSE MaxOf(S)

lastIndexOf(s, p) == LastOf(Occurrences(s, p))

RemoveAt(s, at, n) ==
    IF at = {} THEN s
    ELSE SubSeq(s, 1, MinOf(at)) \o SubSeq(s, MinOf(at) + n + 1, Len(s))

\* s.replace(p, ''): the first occurrence of p removed
replaceFirst(s, p) == RemoveAt(s, Occurrences(s, p), Len(p))

\* parts.join(sep), by halves
RECURSIVE join(_, _)
join(parts, sep) ==
    IF parts = <<>> THEN <<>>
    ELSE IF Len(parts) = 1 THEN parts[1]
    ELSE join(SubSeq(parts, 1, Len(parts) \div 2), sep) \o sep
         \o join(SubSeq(parts, (Len(parts) \div 2) + 1, Len(parts)), sep)

Median(P) == CHOOSE p \in P : Cardinality({q \in P : q < p}) = Cardinality(P) \div 2

\* s.split(c), by halves: always at least one piece
RECURSIVE split(_, _)
RECURSIVE SplitAt(_, _, _)
SplitAt(s, c, at) ==
    IF at = {} THEN <<s>>
    ELSE split(SubSeq(s, 1, Median(at) - 1), c) \o split(SubSeq(s, Median(at) + 1, Len(s)), c)
split(s, c) == SplitAt(s, c, {k \in 1..Len(s) : s[k] = c})

\* decimal digits of n >= 0, as template literals print them
DIGITS == <<"0", "1", "2", "3", "4", "5", "6", "7", "8", "9">>
RECURSIVE ToDigits(_)
ToDigits(n) ==
    IF n < 10 THEN <<DIGITS[n + 1]>> ELSE Append(ToDigits(n \div 10), DIGITS[(n % 10) + 1])

DigitValue(c) == (CHOOSE v \in 1..10 : DIGITS[v] = c) - 1

\* parseInt of a string of digits
RECURSIVE parseInt(_)
parseInt(ds) ==
    IF Len(ds) = 1 THEN DigitValue(ds[1])
    ELSE 10 * parseInt(SubSeq(ds, 1, Len(ds) - 1)) + DigitValue(ds[Len(ds)])

(***************************************************************************)
(* Regular expressions                                                     *)
(*                                                                         *)
(* Every regular expression of the program has the shape                   *)
(*     (?<!B) OPEN ( [class]{min,} CLOSE )... (?!A)                        *)
(* and is a record of that shape.  In each of them the first character of  *)
(* CLOSE is outside the class before it, so a group can only end where the *)
(* run of class characters ends: lazy and greedy quantifiers match alike   *)
(* and there is no backtracking to model.                                  *)
(***************************************************************************)
Not(chars) == [neg |-> TRUE, chars |-> chars]
Only(chars) == [neg |-> FALSE, chars |-> chars]

InClass(c, class) == (c \in class.chars) # class.neg

\* offset of the first character at or after k outside the class, or the length
GroupEnd(t, k, class) ==
    LET at == {j \in k..(Len(t) - 1) : ~InClass(t[j + 1], class)}
    IN  IF at = {} THEN Len(t) ELSE MinOf(at)

RunWhile(t, k, Keep) == GroupEnd(t, k, Only(Keep))

Group(class, min, close) == [class |-> class, min |-> min, close |-> close]

Regex(notBefore, open, groups, notAfter) ==
    [notBefore |-> notBefore, open |-> open, groups |-> groups, notAfter |-> notAfter]

\* /\*\*([^*\n]+?)\*\*/g
BOLD == Regex({}, <<"*", "*">>, <<Group(Not({"*", "\n"}), 1, <<"*", "*">>)>>, {})
\* a variant of ITALIC: /\*([^*\n]+?)\*/g, without the lookbehind and lookahead
ITALIC_UNGUARDED == Regex({}, <<"*">>, <<Group(Not({"*", "\n"}), 1, <<"*">>)>>, {})
\* /(?<!\*)\*([^*\n]+?)\*(?!\*)/g
ITALIC == Regex({"*"}, <<"*">>, <<Group(Not({"*", "\n"}), 1, <<"*">>)>>, {"*"})
\* /`([^`\n]+?)`/g
CODE == Regex({}, <<BACKTICK>>, <<Group(Not({BACKTICK, "\n"}), 1, <<BACKTICK>>)>>, {})
\* /\[([^\]]+?)\]\(([^)\n]+?)\)/g
LINK ==
    Regex({}, <<"[">>, <<Group(Not({"]"}), 1, <<"]", "(">>),
                         Group(Not({")", "\n"}), 1, <<")">>)>>, {})
\* /\$([^$\n]+)\$/g (part_001)
MATH == Regex({}, <<"$">>, <<Group(Not({"$", "\n"}), 1, <<"$">>)>>, {})
\* /(\$[^$\r\n]*?\$)/g (upload-notion.js)
MATH_ONLY == Regex({}, <<"$">>, <<Group(Not({"$", "\r", "\n"}), 0, <<"$">>)>>, {})
\* /(__MATH_\d+__)/
MATH_PREFIX == <<"_", "_", "M", "A", "T", "H", "_">>
PLACEHOLDER == Regex({}, MATH_PREFIX, <<Group(Only(Digit), 1, <<"_", "_">>)>>, {})
\* /\d+/
NUMBER == Regex({}, <<>>, <<Group(Only(Digit), 1, <<>>)>>, {})

NoMatch == [ok |-> FALSE, start |-> 0, end |-> 0, captures |-> <<>>]

Captured(capture, rest) ==
    IF rest.ok THEN [rest EXCEPT !.captures = <<capture>> \o rest.captures] ELSE rest

\* the groups from offset k on
RECURSIVE MatchGroups(_, _, _)
RECURSIVE GroupTo(_, _, _, _)
GroupTo(t, k, groups, e) ==
    IF /\ e - k >= Head(groups).min
       /\ substring(t, e, e + Len(Head(groups).close)) = Head(groups).close
    THEN Captured(substring(t, k, e),
                  MatchGroups(t, e + Len(Head(groups).close), Tail(groups)))
    ELSE NoMatch
MatchGroups(t, k, groups) ==
    IF groups = <<>> THEN [ok |-> TRUE, start |-> 0, end |-> k, captures |-> <<>>]
    ELSE GroupTo(t, k, groups, GroupEnd(t, k, Head(groups).class))

Bounded(re, t, s, m) ==
    IF m.ok /\ CharAt(t, m.end) \notin re.notAfter THEN [m EXCEPT !.start = s] ELSE NoMatch

\* the regular expression tried at offset s
RegexAt(re, t, s) ==
    IF /\ CharAt(t, s - 1) \notin re.notBefore
       /\ s + Len(re.open) <= Len(t)
       /\ substring(t, s, s + Len(re.open)) = re.open
    THEN Bounded(re, t, s, MatchGroups(t, s + Len(re.open), re.groups))
    ELSE NoMatch

Leftmost(ms) ==
    IF ms = {} THEN NoMatch ELSE CHOOSE m \in ms : \A n \in ms : m.start <= n.start

\* regex.exec(text) with lastIndex = from: the leftmost match at or after from
exec(re, t, from) ==
    Leftmost({m \in {RegexAt(re, t, s) : s \in from..(Len(t) - 1)} : m.ok})

\* str.split(/(re)/): the pieces between the matches alternate with the matches
RECURSIVE splitKeep(_, _, _)
SplitOn(re, t, from, m) ==
    IF ~m.ok THEN <<substringFrom(t, from)>>
    ELSE <<substring(t, from, m.start), substring(t, m.start, m.end)>>
         \o splitKeep(re, t, m.end)
splitKeep(re, t, from) == SplitOn(re, t, from, exec(re, t, from))

(***************************************************************************)
(* Inline tokenizer: processTextFormatting (part_001)                      *)
(***************************************************************************)
patterns ==
    <<[regex |-> BOLD, type |-> "bold"], [regex |-> ITALIC, type |-> "italic"],
      [regex |-> CODE, type |-> "code"], [regex |-> LINK, type |-> "link"]>>

\* matches.push({start, end, content: match[1], ..., type, url: match[2] || null})
Candidate(pattern, m) ==
    [start |-> m.start, end |-> m.end, content |-> m.captures[1], type |-> pattern.type,
     url |-> IF Len(m.captures) > 1 THEN m.captures[2] ELSE <<>>]

\* while ((match = regex.exec(text)) !== null) matches.push(...)
RECURSIVE execAll(_, _, _)
ExecOn(pattern, t, m) ==
    IF ~m.ok THEN <<>> ELSE <<Candidate(pattern, m)>> \o execAll(pattern, t, m.end)
execAll(pattern, t, from) == ExecOn(pattern, t, exec(pattern.regex, t, from))

\* patterns.forEach(pattern => {...})
RECURSIVE PooledMatches(_, _)
PooledMatches(ps, t) ==
    IF ps = <<>> THEN <<>> ELSE execAll(Head(ps), t, 0) \o PooledMatches(Tail(ps), t)

\* matches.sort((a, b) => a.start - b.start), a stable sort
RECURSIVE InsertByStart(_, _)
InsertByStart(sorted, m) ==
    IF sorted = <<>> THEN <<m>>
    ELSE IF m.start < Head(sorted).start THEN <<m>> \o sorted
    ELSE <<Head(sorted)>> \o InsertByStart(Tail(sorted), m)

RECURSIVE SortByStart(_)
SortByStart(ms) ==
    IF ms = <<>> THEN <<>>
    ELSE InsertByStart(SortByStart(SubSeq(ms, 1, Len(ms) - 1)), ms[Len(ms)])

\* a variant of Overlaps: the first comparison is with existing.start
OverlapsFromTheLeft(current, existing) ==
    current.start < existing.start /\ current.end > existing.start

\* current.start < existing.end && current.end > existing.start
Overlaps(current, existing) ==
    current.start < existing.end /\ current.end > existing.start

\* the loop building validMatches
RECURSIVE RemoveOverlaps(_, _)
RemoveOverlaps(ms, valid) ==
    IF ms = <<>> THEN valid
    ELSE IF \E k \in 1..Len(valid) : Overlaps(Head(ms), valid[k])
    THEN RemoveOverlaps(Tail(ms), valid)
    ELSE RemoveOverlaps(Tail(ms), Append(valid, Head(ms)))

TextPart(content) ==
    [type |-> "text", content |-> content, link |-> FALSE, url |-> <<>>,
     annotations |-> {}]

LinkPart(content, url) ==
    [type |-> "text", content |-> content, link |-> TRUE, url |-> url,
     annotations |-> {}]

FormatPart(content, format) ==
    [type |-> "text", content |-> content, link |-> FALSE, url |-> <<>>,
     annotations |-> {format}]

EquationPart(expression) == [type |-> "equation", expression |-> expression]

\* the part pushed for an accepted match
MatchPart(match) ==
    IF match.type = "link" THEN LinkPart(match.content, match.url)
    ELSE FormatPart(match.content, match.type)

\* validMatches.forEach(match => {...}), then the remaining text
RECURSIVE BuildParts(_, _, _)
BuildParts(t, valid, lastEnd) ==
    IF valid = <<>>
    THEN IF lastEnd < Len(t) THEN <<TextPart(substringFrom(t, lastEnd))>> ELSE <<>>
    ELSE (IF Head(valid).start > lastEnd
          THEN <<TextPart(substring(t, lastEnd, Head(valid).start))>>
          ELSE <<>>)
         \o <<MatchPart(Head(valid))>> \o BuildParts(t, Tail(valid), Head(valid).end)

\* if (parts.length === 0 && text.trim()) parts.push(text)
WholeIfEmpty(t, parts) ==
    IF parts = <<>> /\ trim(t) # <<>> THEN <<TextPart(t)>> ELSE parts

Formatted(t, sorted, valid) ==
    [matches |-> sorted, validMatches |-> valid,
     parts |-> WholeIfEmpty(t, BuildParts(t, valid, 0))]

Accepted(t, sorted) == Formatted(t, sorted, RemoveOverlaps(sorted, <<>>))

\* [matches, validMatches, parts]: the locals of processTextFormatting at its return
processTextFormatting(t) == Accepted(t, SortByStart(PooledMatches(patterns, t)))

(***************************************************************************)
(* Inline tokenizer: processRichText (part_001)                            *)
(***************************************************************************)
\* `__MATH_${mathIndex}__`
Placeholder(mathIndex) == MATH_PREFIX \o ToDigits(mathIndex) \o <<"_", "_">>

\* tempText.replace(/\$([^$\n]+)\$/g, (match, equation) => placeholder)
RECURSIVE ReplaceMath(_, _, _)
Replaced(t, from, mathIndex, m, rest) ==
    [tempText |-> substring(t, from, m.start) \o Placeholder(mathIndex) \o rest.tempText,
     mathPlaceholders |-> <<trim(m.captures[1])>> \o rest.mathPlaceholders]
ReplaceOn(t, from, mathIndex, m) ==
    IF ~m.ok THEN [tempText |-> substringFrom(t, from), mathPlaceholders |-> <<>>]
    ELSE Replaced(t, from, mathIndex, m, ReplaceMath(t, m.end, mathIndex + 1))
ReplaceMath(t, from, mathIndex) == ReplaceOn(t, from, mathIndex, exec(MATH, t, from))

Restored(out) == [out |-> out, raised |-> FALSE]
Thrown == [out |-> <<>>, raised |-> TRUE]
Then(one, rest) == [out |-> one.out \o rest.out, raised |-> rest.raised]

\* if (mathPlaceholders[index]) richText.push(equation)
LookUp(index, placeholders) ==
    IF index < Len(placeholders) /\ placeholders[index + 1] # <<>>
    THEN Restored(<<EquationPart(placeholders[index + 1])>>)
    ELSE Restored(<<>>)

\* parseInt(segment.match(/\d+/)[0]): a TypeError when there is no digit
RestorePlaceholder(m, placeholders) ==
    IF ~m.ok THEN Thrown ELSE LookUp(parseInt(m.captures[1]), placeholders)

\* one segment of the split of a part's content
RestoreSegment(segment, part, placeholders) ==
    IF startsWith(segment, MATH_PREFIX) /\ endsWith(segment, <<"_", "_">>)
    THEN RestorePlaceholder(exec(NUMBER, segment, 0), placeholders)
    ELSE IF segment # <<>>
    THEN Restored(<<[type |-> "text", content |-> segment, link |-> FALSE,
                     url |-> <<>>, annotations |-> part.annotations]>>)
    ELSE Restored(<<>>)

\* for (const segment of segments) {...}
RECURSIVE RestoreSegments(_, _, _)
SegmentThen(one, segments, part, placeholders) ==
    IF one.raised THEN Thrown
    ELSE Then(one, RestoreSegments(segments, part, placeholders))
RestoreSegments(segments, part, placeholders) ==
    IF segments = <<>> THEN Restored(<<>>)
    ELSE SegmentThen(RestoreSegment(Head(segments), part, placeholders),
                     Tail(segments), part, placeholders)

\* the body of for (const part of textParts)
RestorePart(part, placeholders) ==
    IF part.type = "text" /\ includes(part.content, MATH_PREFIX)
    THEN RestoreSegments(splitKeep(PLACEHOLDER, part.content, 0), part, placeholders)
    ELSE Restored(<<part>>)

\* for (const part of textParts) {...}
RECURSIVE RestoreMath(_, _)
PartThen(one, parts, placeholders) ==
    IF one.raised THEN Thrown ELSE Then(one, RestoreMath(parts, placeholders))
RestoreMath(parts, placeholders) ==
    IF parts = <<>> THEN Restored(<<>>)
    ELSE PartThen(RestorePart(Head(parts), placeholders), Tail(parts), placeholders)

Returned(p1, f, r) ==
    [tempText |-> p1.tempText, mathPlaceholders |-> p1.mathPlaceholders,
     matches |-> f.matches, validMatches |-> f.validMatches, textParts |-> f.parts,
     richText |-> r.out, raised |-> r.raised]

Restore(p1, f) == Returned(p1, f, RestoreMath(f.parts, p1.mathPlaceholders))

Format(p1) == Restore(p1, processTextFormatting(p1.tempText))

\* a variant of processRichText: the text is formatted with its math in place
processRichTextUnprotected(t) == Format([tempText |-> t, mathPlaceholders |-> <<>>])

\* the locals of processRichText at its return; richText is the returned array,
\* and raised = TRUE when the call threw instead of returning
processRichText(t) == Format(ReplaceMath(t, 0, 0))

NoLocals ==
    [tempText |-> <<>>, mathPlaceholders |-> <<>>, matches |-> <<>>,
     validMatches |-> <<>>, textParts |-> <<>>, richText |-> <<>>, raised |-> FALSE]

(***************************************************************************)
(* Inline tokenizer: processRichText (upload-notion.js), inline math only  *)
(***************************************************************************)
PlainPart(content) == [type |-> "text", content |-> content]

\* the body of the loop over segments, idx the index of seg
MathOnlySegment(seg, idx) ==
    IF idx % 2 = 0
    THEN IF seg # <<>> THEN <<PlainPart(seg)>> ELSE <<>>
    ELSE IF startsWith(seg, <<"$">>) /\ endsWith(seg, <<"$">>)
    THEN IF trim(SubSeq(seg, 2, Len(seg) - 1)) # <<>>
         THEN <<EquationPart(trim(SubSeq(seg, 2, Len(seg) - 1)))>>
         ELSE <<>>
    ELSE <<PlainPart(seg)>>

RECURSIVE MathOnlySegments(_, _)
MathOnlySegments(segments, idx) ==
    IF segments = <<>> THEN <<>>
    ELSE MathOnlySegment(Head(segments), idx) \o MathOnlySegments(Tail(segments), idx + 1)

processRichTextMathOnly(t) == MathOnlySegments(splitKeep(MATH_ONLY, t, 0), 0)

(***************************************************************************)
(* Block scanner: parseMarkdownWithMath (upload-notion.js)                 *)
(*                                                                         *)
(* The scanner's locals are the fields of one record: lines, i, blocks,    *)
(* mathContent, codeContent, language, and pc, the loop the cursor is in   *)
(* ("outer", "math", "code", "done").  Three more fields are history, not  *)
(* program state: consumed lists the line indexes in the order the cursor  *)
(* passed them, with the step that passed each; origin gives, for every    *)
(* emitted block, the index of the line whose dispatch emitted it; opener  *)
(* is the index of the line being dispatched.                              *)
(***************************************************************************)
DOLLARS == <<"$", "$">>
FENCE == <<BACKTICK, BACKTICK, BACKTICK>>
PLAIN_TEXT == <<"p", "l", "a", "i", "n", " ", "t", "e", "x", "t">>
NEWLINE == <<"\n">>

EquationBlock(expression) == [type |-> "equation", expression |-> expression]

CodeBlock(content, language) ==
    [type |-> "code", content |-> content, language |-> language]

DividerBlock == [type |-> "divider"]

TextBlock(blockType, rich_text) == [type |-> blockType, rich_text |-> rich_text]

\* /^\d+\.\s/.test(line), d the length of the leading run of digits
NumberedAt(line, d) == d > 0 /\ CharAt(line, d) = "." /\ IsSpace(CharAt(line, d + 1))

\* the branch of the if / else-if chain that a trimmed line takes
Dispatch(line) ==
    IF startsWith(line, DOLLARS)
    THEN IF endsWith(SubSeq(line, 3, Len(line)), DOLLARS) THEN "mathSingle" ELSE "mathOpen"
    ELSE IF startsWith(line, FENCE) THEN "codeOpen"
    ELSE IF line = <<"-", "-", "-">> \/ line = <<"*", "*", "*">> \/ line = <<"_", "_", "_">>
    THEN "divider"
    ELSE IF startsWith(line, <<"#">>) THEN "heading"
    ELSE IF startsWith(line, <<"-", " ">>) \/ startsWith(line, <<"*", " ">>) THEN "bullet"
    ELSE IF NumberedAt(line, RunWhile(line, 0, Digit)) THEN "numbered"
    ELSE IF startsWith(line, <<">", " ">>) THEN "quote"
    ELSE IF line # <<>> THEN "paragraph"
    ELSE "blank"

\* line.length - line.replace(/^#+/, '').length
HeadingLevel(line) == RunWhile(line, 0, {"#"})

HeadingType(level) ==
    IF level = 1 THEN "heading_1" ELSE IF level = 2 THEN "heading_2" ELSE "heading_3"

\* the type of the block of a line that carries rich text
BlockType(line, branch) ==
    CASE branch = "heading" -> HeadingType(HeadingLevel(line))
      [] branch = "bullet" -> "bulleted_list_item"
      [] branch = "numbered" -> "numbered_list_item"
      [] branch = "quote" -> "quote"
      [] branch = "paragraph" -> "paragraph"

\* the offset where the text of the line begins: after /^#+\s*/, /^[-*]\s+/,
\* /^\d+\.\s+/, /^>\s+/, or 0 for a paragraph
TextStart(line, branch) ==
    CASE branch = "heading" -> RunWhile(line, RunWhile(line, 0, {"#"}), WhiteSpace)
      [] branch = "bullet" -> RunWhile(line, 1, WhiteSpace)
      [] branch = "numbered" -> RunWhile(line, RunWhile(line, 0, Digit) + 1, WhiteSpace)
      [] branch = "quote" -> RunWhile(line, 1, WhiteSpace)
      [] branch = "paragraph" -> 0

\* const expression = firstLine.substring(0, firstLine.length - 2).trim()
SingleLineMath(expression) ==
    IF expression # <<>> THEN <<EquationBlock(expression)>> ELSE <<>>

\* a variant of BlankLine: a blank line pushes an empty paragraph
BlankLineAsParagraph == <<TextBlock("paragraph", <<>>)>>

\* else if (line) {...}: nothing is pushed for a blank line
BlankLine == <<>>

\* the blocks that a single-line branch pushes
LineBlocks(line, branch) ==
    CASE branch = "mathSingle" -> SingleLineMath(trim(SubSeq(line, 3, Len(line) - 2)))
      [] branch = "divider" -> <<DividerBlock>>
      [] branch = "blank" -> BlankLine
      [] OTHER ->
            <<TextBlock(BlockType(line, branch),
                        processRichTextMathOnly(substringFrom(line, TextStart(line, branch))))>>

\* a variant of OrPlainText: no default language
OrNothing(language) == language

\* line.replace('```', '').trim() || 'plain text'
OrPlainText(language) == IF language # <<>> THEN language ELSE PLAIN_TEXT
Language(line) == OrPlainText(trim(replaceFirst(line, FENCE)))

\* if (firstLine.trim()) mathContent.push(firstLine.trim())
FirstMath(firstLine) == IF firstLine # <<>> THEN <<firstLine>> ELSE <<>>

\* blocks.push(...), each new block recorded as coming from the line dispatched
Push(s, new) ==
    [s EXCEPT !.blocks = s.blocks \o new,
              !.origin = s.origin \o [k \in 1..Len(new) |-> s.opener]]

\* a variant of Pass: the line after a closer is skipped
PassSkipping(s, by) ==
    [s EXCEPT !.i = s.i + (IF by = "closer" THEN 2 ELSE 1),
              !.consumed = IF by = "end" THEN s.consumed
                           ELSE Append(s.consumed, [index |-> s.i, by |-> by])]

\* i++, the line passed recorded with the step that passed it
Pass(s, by) ==
    [s EXCEPT !.i = s.i + 1,
              !.consumed = IF by = "end" THEN s.consumed
                           ELSE Append(s.consumed, [index |-> s.i, by |-> by])]

\* const blocks = []; const lines = markdownContent.split('\n'); let i = 0;
InitScan(md) ==
    [lines |-> split(md, "\n"), i |-> 0, blocks |-> <<>>, pc |-> "outer",
     mathContent |-> <<>>, codeContent |-> <<>>, language |-> <<>>,
     consumed |-> <<>>, origin |-> <<>>, opener |-> 0]

NotStarted ==
    [lines |-> <<>>, i |-> 0, blocks |-> <<>>, pc |-> "start",
     mathContent |-> <<>>, codeContent |-> <<>>, language |-> <<>>,
     consumed |-> <<>>, origin |-> <<>>, opener |-> 0]

\* the body of the outer loop for a line of the given branch, up to the inner
\* loop when the line opens one
Branch(s, line, branch) ==
    CASE branch = "mathOpen" ->
            Pass([s EXCEPT !.mathContent = FirstMath(trim(SubSeq(line, 3, Len(line)))),
                           !.pc = "math"], "dispatch")
      [] branch = "codeOpen" ->
            Pass([s EXCEPT !.codeContent = <<>>,
                           !.language = Language(line),
                           !.pc = "code"], "dispatch")
      [] OTHER -> Pass(Push(s, LineBlocks(line, branch)), "dispatch")

Dispatched(s, line) == Branch(s, line, Dispatch(line))

\* one iteration of the outer loop
OuterStep(s) == Dispatched([s EXCEPT !.opener = s.i], trim(s.lines[s.i + 1]))

\* if (mathContent.length > 0) blocks.push(equation)
MathBlocks(content) ==
    IF Len(content) > 0 THEN <<EquationBlock(trim(join(content, NEWLINE)))>> ELSE <<>>

\* a variant of MathEmit: an equation left open at the end of input pushes nothing
MathEmitClosedOnly(s, by) ==
    IF by = "end" THEN Pass([s EXCEPT !.pc = "outer"], by)
    ELSE Pass([Push(s, MathBlocks(s.mathContent)) EXCEPT !.pc = "outer"], by)

\* what follows the math loop: the push, then the i++ ending the outer iteration
MathEmit(s, by) == Pass([Push(s, MathBlocks(s.mathContent)) EXCEPT !.pc = "outer"], by)

\* a variant of LastMath: the text before the closing $$ is dropped
LastMathDropped(s, lastPart) == s

\* if (lastPart) mathContent.push(lastPart)
LastMath(s, lastPart) ==
    IF lastPart # <<>> THEN [s EXCEPT !.mathContent = Append(s.mathContent, lastPart)] ELSE s

\* one test of the math loop: accumulate a line, or leave on the closer or at the end
MathLine(s, currentLine) ==
    IF endsWith(trim(currentLine), DOLLARS)
    THEN MathEmit(LastMath(s, trim(substring(currentLine, 0,
                                             lastIndexOf(currentLine, DOLLARS)))),
                  "closer")
    ELSE Pass([s EXCEPT !.mathContent = Append(s.mathContent, currentLine)], "accumulate")

MathStep(s) ==
    IF s.i < Len(s.lines) THEN MathLine(s, s.lines[s.i + 1]) ELSE MathEmit(s, "end")

\* a variant of CodeEmit: a fence left open at the end of input pushes nothing
CodeEmitClosedOnly(s, by) ==
    IF by = "end" THEN Pass([s EXCEPT !.pc = "outer"], by)
    ELSE Pass([Push(s, <<CodeBlock(join(s.codeContent, NEWLINE), s.language)>>)
               EXCEPT !.pc = "outer"], by)

\* what follows the code loop: the push, then the i++ ending the outer iteration
CodeEmit(s, by) ==
    Pass([Push(s, <<CodeBlock(join(s.codeContent, NEWLINE), s.language)>>)
          EXCEPT !.pc = "outer"], by)

\* one test of the code loop: accumulate a line, or leave on the closer or at the end
CodeStep(s) ==
    IF s.i < Len(s.lines) /\ ~startsWith(trim(s.lines[s.i + 1]), FENCE)
    THEN Pass([s EXCEPT !.codeContent = Append(s.codeContent, s.lines[s.i + 1])],
              "accumulate")
    ELSE CodeEmit(s, IF s.i < Len(s.lines) THEN "closer" ELSE "end")

(***************************************************************************)
(* Block scanner and inline math: the oldest revision (part_000)           *)
(*                                                                         *)
(* The same record of locals and history as above.  This revision has a    *)
(* math branch, headings, paragraphs and empty paragraphs for blank lines. *)
(***************************************************************************)
\* /\$([^$]+)\$/
MATH_ANY == Regex({}, <<"$">>, <<Group(Not({"$"}), 1, <<"$">>)>>, {})

\* str.split(/..(group)../): the pieces between the matches alternate with the
\* captures of the group
RECURSIVE splitCapture(_, _, _)
SplitCaptureOn(re, t, from, m) ==
    IF ~m.ok THEN <<substringFrom(t, from)>>
    ELSE <<substring(t, from, m.start), m.captures[1]>> \o splitCapture(re, t, m.end)
splitCapture(re, t, from) == SplitCaptureOn(re, t, from, exec(re, t, from))

\* the body of for (let i = 0; i < parts.length; i++)
InlineMathPart(part, idx) ==
    IF idx % 2 = 0
    THEN IF part # <<>> THEN <<PlainPart(part)>> ELSE <<>>
    ELSE <<EquationPart(trim(part))>>

RECURSIVE InlineMathParts(_, _)
InlineMathParts(parts, idx) ==
    IF parts = <<>> THEN <<>>
    ELSE InlineMathPart(Head(parts), idx) \o InlineMathParts(Tail(parts), idx + 1)

processInlineMath(t) == InlineMathParts(splitCapture(MATH_ANY, t, 0), 0)

\* the branch of the if / else-if chain that a trimmed line takes
OldestDispatch(line) ==
    IF startsWith(line, DOLLARS) THEN "mathOpen"
    ELSE IF startsWith(line, <<"#">>) THEN "heading"
    ELSE IF line # <<>> /\ ~startsWith(line, DOLLARS) THEN "paragraph"
    ELSE "blank"

\* the body of the outer loop for a line of the given branch, up to the math
\* loop when the line opens it: const mathContent = []; i++;
OldestBranch(s, line, branch) ==
    CASE branch = "mathOpen" ->
            Pass([s EXCEPT !.mathContent = <<>>, !.pc = "math"], "dispatch")
      [] branch = "heading" ->
            Pass(Push(s, <<TextBlock(HeadingType(HeadingLevel(line)),
                                     processInlineMath(
                                         substringFrom(line, TextStart(line, branch))))>>),
                 "dispatch")
      [] branch = "paragraph" ->
            Pass(Push(s, <<TextBlock("paragraph", processInlineMath(line))>>), "dispatch")
      [] OTHER -> Pass(Push(s, <<TextBlock("paragraph", <<>>)>>), "dispatch")

\* one iteration of the outer loop
OldestOuterStep(s) ==
    OldestBranch([s EXCEPT !.opener = s.i], trim(s.lines[s.i + 1]),
                 OldestDispatch(trim(s.lines[s.i + 1])))

\* const lastLine = lines[i].replace('$$', '').trim(); if (lastLine) push
OldestLastLine(s, lastLine) ==
    IF lastLine # <<>> THEN [s EXCEPT !.mathContent = Append(s.mathContent, lastLine)]
    ELSE s

\* what follows the math loop: the unconditional push, then the i++ ending the
\* outer iteration
OldestMathEmit(s, by) ==
    Pass([Push(s, <<EquationBlock(trim(join(s.mathContent, NEWLINE)))>>)
          EXCEPT !.pc = "outer"], by)

\* one test of while (i < lines.length && !lines[i].trim().endsWith('$$'))
OldestMathStep(s) ==
    IF s.i >= Len(s.lines) THEN OldestMathEmit(s, "end")
    ELSE IF ~endsWith(trim(s.lines[s.i + 1]), DOLLARS)
    THEN Pass([s EXCEPT !.mathContent = Append(s.mathContent, s.lines[s.i + 1])],
              "accumulate")
    ELSE OldestMathEmit(OldestLastLine(s, trim(replaceFirst(s.lines[s.i + 1], DOLLARS))),
                        "closer")

(***************************************************************************)
(* Request handler: the default export (upload-notion.js)                  *)
(***************************************************************************)
batchSize == 100

NoResponse == [status |-> 0, kind |-> "none", errorData |-> ""]

\* new Response(..., {status})
Respond(status, kind) == [status |-> status, kind |-> kind, errorData |-> ""]

\* the statuses a Response that has a body cannot carry: new Response(body,
\* {status}) throws for them, and the throw is caught like any other
NullBodyStatus == {101, 103, 204, 205, 304}

\* a variant of RespondRemote: the failure is answered with status 500
RespondRemoteAs500(kind, answer) ==
    [status |-> 500, kind |-> kind, errorData |-> answer.body]

\* const errorData = await response.text();
\* return new Response(JSON.stringify({error: `...${status} - ${errorData}`}), {status})
\* and } catch (error) { return new Response(..., {status: 500}) } when reading
\* the body or building the response throws
RespondRemote(kind, answer) ==
    IF ~answer.text \/ answer.status \in NullBodyStatus
    THEN Respond(500, "Server Error")
    ELSE [status |-> answer.status, kind |-> kind, errorData |-> answer.body]

\* fetch('https://api.notion.com/v1/pages', {method: 'POST', body: pagePayload})
PageRequest == [method |-> "POST", url |-> "pages", hasChildren |-> FALSE, children |-> <<>>]

\* fetch(`.../blocks/${pageId}/children`, {method: 'PATCH', body: {children: batch}})
AppendRequest(batch) ==
    [method |-> "PATCH", url |-> "children", hasChildren |-> TRUE, children |-> batch]

\* blocks.slice(from, to)
slice(blocks, from, to) ==
    SubSeq(blocks, from + 1, IF to > Len(blocks) THEN Len(blocks) ELSE to)

\* a variant of Batch: the last block of a full batch is left out
BatchShort(blocks, k) == slice(blocks, k, k + batchSize - 1)

\* const batch = blocks.slice(i, i + batchSize)
Batch(blocks, k) == slice(blocks, k, k + batchSize)

\* !title || !markdownContent || !notionToken || !parentPageId
MissingFields(r) ==
    r.title = <<>> \/ r.markdownContent = <<>> \/ r.notionToken = <<>> \/ r.parentPageId = <<>>

\* the answers of the remote service: ok (with a body that parses as JSON or
\* not), an HTTP failure (with a body that can be read or not), or a rejected
\* fetch
RemoteErrorStatus == {304, 400, 429}
RemoteBodies == {"rate limited", "validation error"}
RemoteAnswers ==
    {[fetched |-> TRUE, ok |-> TRUE, status |-> 200, body |-> "page", json |-> j,
      text |-> TRUE] : j \in BOOLEAN}
    \cup {[fetched |-> TRUE, ok |-> FALSE, status |-> st, body |-> b, json |-> TRUE,
           text |-> t] : st \in RemoteErrorStatus, b \in RemoteBodies, t \in BOOLEAN}
    \cup {[fetched |-> FALSE, ok |-> FALSE, status |-> 0, body |-> "", json |-> FALSE,
           text |-> FALSE]}

(***************************************************************************)
(* Inputs                                                                  *)
(***************************************************************************)
\* the concatenations of at most n strings of F
RECURSIVE Concats(_, _)
Concats(F, n) ==
    IF n = 0 THEN {<<>>}
    ELSE {<<>>} \cup {f \o r : f \in F, r \in Concats(F, n - 1)}

\* lines over the emphasis characters
MaxStarLen == 6
StarAlphabet == {<<"*">>, <<"a">>, <<" ">>}

\* $e$ with e built from text, white space and formatting markers
MaxExprFrags == 3
ExprFragments ==
    {<<"a">>, <<" ">>, <<"*">>, <<"*", "*">>, <<BACKTICK>>, <<"_">>, <<"\r">>,
     <<"[", "a", "]", "(", "u", ")">>, <<"*", "b", "*">>, <<BACKTICK, "c", BACKTICK>>}
MathLines == {<<"$">> \o e \o <<"$">> : e \in Concats(ExprFragments, MaxExprFrags)}

\* lines mixing all the span kinds
MaxFrags == 3
Fragments ==
    {<<"a">>, <<" ">>, <<"*">>, <<"*", "*">>, <<BACKTICK>>, <<"$">>, <<"[", "t">>,
     <<"]", "(", "u", ")">>, <<"$", "x", "$">>, MATH_PREFIX, <<"0", "_", "_">>,
     <<"_", "_">>}

\* [t](u) with math inside the link text or the url
LinkTexts ==
    {<<"t">>, <<"t", " ", "$", "x", "$">>, <<"$", "x", "$", " ", "t">>,
     <<"a", "$", "x", "$", "b">>, <<"$", "x", "$">>, <<"*", "t", "*">>}
LinkUrls == {<<"u">>, <<"h", ":", "/", "/", "x">>, <<"$", "y", "$">>}
LinkAffixes == {<<>>, <<"a", " ">>, <<"$", "z", "$">>}
LinkLines ==
    {pre \o <<"[">> \o t \o <<"]", "(">> \o u \o <<")">> \o post :
        pre \in LinkAffixes, t \in LinkTexts, u \in LinkUrls, post \in LinkAffixes}

BoldItalicLine ==
    <<"*", "*", "b", "o", "l", "d", "*", "*", " ", "a", "n", "d", " ",
      "*", "i", "t", "a", "l", "i", "c", "*">>
NestedLine == <<"*", "*", "a", "*", "b", "*", "c", "*", "*">>
InlineMathLine == <<"$", "x", "+", "y", "$">>
LinkLine ==
    <<"[", "t", "e", "x", "t", "]", "(", "h", "t", "t", "p", ":", "/", "/", "x", ")">>

\* bold, then a code span with an italic candidate inside it
OverlappingLine ==
    <<"*", "*", "b", "*", "*", " ", BACKTICK, "*", "c", "*", BACKTICK, " ", "d">>

TextInputs ==
    {BoldItalicLine, NestedLine, InlineMathLine, LinkLine, OverlappingLine}
    \cup Concats(StarAlphabet, MaxStarLen)
    \cup MathLines
    \cup Concats(Fragments, MaxFrags)
    \cup LinkLines

\* documents of up to MaxLines lines
MaxLines == 4
ScanLines ==
    {<<>>, <<" ", "b", " ">>,
     <<"$", "$">>, <<"$", "$", " ", "x">>, <<" ", "y", " ", "$", "$">>,
     <<"$", "$", "x", "$", "$">>,
     FENCE, <<" ">> \o FENCE \o <<"p", "y">>}
EquationDoc == <<"$", "$", "\n", "E", "=", "m", "c", "^", "2", "\n", "$", "$">>
ScanDocs ==
    {join(ls, NEWLINE) : ls \in UNION {[1..n -> ScanLines] : n \in 1..MaxLines}}
    \cup {EquationDoc}
\* a heading with inline math, a display equation on one line, a paragraph
HeadingDoc ==
    <<"#", "#", " ", "h", " ", "$", "x", "$", "\n", "$", "$", "x", "$", "$", "\n", "a">>

\* documents of n numbered paragraphs, around the batch size
MaxDocLines == 201
NumberedDoc(n) == join([k \in 1..n |-> ToDigits(k)], NEWLINE)
DocSizes == {0, 1, batchSize - 1, batchSize, batchSize + 1, 2 * batchSize, MaxDocLines}
HandlerDocs ==
    {NumberedDoc(n) : n \in DocSizes}
    \cup {NEWLINE,
          <<"#", " ", "h", "\n", "\n", "$", "$", "\n", "x", "\n", "$", "$", "\n">>
          \o FENCE \o <<"\n", "c">>}

ValidRequest(md) ==
    [method |-> "POST", json |-> TRUE, title |-> <<"T">>, markdownContent |-> md,
     notionToken |-> <<"s">>, parentPageId |-> <<"p">>]
HandlerRequests ==
    {ValidRequest(md) : md \in HandlerDocs}
    \cup {[ValidRequest(<<"a">>) EXCEPT !.method = "GET"],
          [ValidRequest(<<"a">>) EXCEPT !.json = FALSE],
          [ValidRequest(<<"a">>) EXCEPT !.title = <<>>],
          [ValidRequest(<<"a">>) EXCEPT !.notionToken = <<>>],
          [ValidRequest(<<"a">>) EXCEPT !.parentPageId = <<>>]}

(***************************************************************************)
(* Initial state: nothing has been called yet                              *)
(***************************************************************************)
NoRequest == ValidRequest(<<>>)

Init ==
    /\ text = <<>> /\ tokPc = "start" /\ tok = NoLocals
    /\ markdownContent = <<>> /\ sc = NotStarted
    /\ request = NoRequest /\ hpc = "start" /\ hblocks = <<>> /\ hi = 0
    /\ requests = <<>> /\ answers = <<>> /\ response = NoResponse

(***************************************************************************)
(* The inline tokenizer called on one line                                 *)
(***************************************************************************)
\* processRichText(text) of part_001
Tokenize ==
    /\ tokPc = "start"
    /\ \E t \in TextInputs :
          /\ text' = t
          /\ tok' = processRichText(t)
    /\ tokPc' = "done"
    /\ UNCHANGED <<scanVars, handlerVars>>

\* processRichText(text) of upload-notion.js
TokenizeMathOnly ==
    /\ tokPc = "start"
    /\ \E t \in TextInputs :
          /\ text' = t
          /\ tok' = [NoLocals EXCEPT !.richText = processRichTextMathOnly(t)]
    /\ tokPc' = "doneMathOnly"
    /\ UNCHANGED <<scanVars, handlerVars>>

TokNext == Tokenize \/ TokenizeMathOnly
TokSpec == Init /\ [][TokNext]_vars

(***************************************************************************)
(* The block scanner called on one document                                *)
(***************************************************************************)
\* parseMarkdownWithMath(markdownContent) is entered
ScanStart ==
    /\ sc.pc = "start"
    /\ \E md \in ScanDocs :
          /\ markdownContent' = md
          /\ sc' = InitScan(md)
    /\ UNCHANGED <<tokVars, handlerVars>>

\* while (i < lines.length) {...}
ScanOuter ==
    /\ sc.pc = "outer" /\ sc.i < Len(sc.lines)
    /\ sc' = OuterStep(sc)
    /\ UNCHANGED <<markdownContent, tokVars, handlerVars>>

ScanMath ==
    /\ sc.pc = "math"
    /\ sc' = MathStep(sc)
    /\ UNCHANGED <<markdownContent, tokVars, handlerVars>>

ScanCode ==
    /\ sc.pc = "code"
    /\ sc' = CodeStep(sc)
    /\ UNCHANGED <<markdownContent, tokVars, handlerVars>>

\* return blocks
ScanReturn ==
    /\ sc.pc = "outer" /\ sc.i >= Len(sc.lines)
    /\ sc' = [sc EXCEPT !.pc = "done"]
    /\ UNCHANGED <<markdownContent, tokVars, handlerVars>>

ScanNext == ScanStart \/ ScanOuter \/ ScanMath \/ ScanCode \/ ScanReturn
ScanSpec == Init /\ [][ScanNext]_vars

\* The scanner is one synchronous call: a step that can be taken is taken.
\* This is weak fairness of ScanNext, written without ENABLED: a step can be
\* taken exactly when the call has not returned, and under [][ScanNext]_vars
\* the steps that change vars are the steps of ScanNext.
ScanFairSpec ==
    ScanSpec /\ (<>[](sc.pc = "done") \/ []<><<TRUE>>_vars)

\* parseMarkdownWithMath(markdownContent) of part_000 is entered
OldestScanStart ==
    /\ sc.pc = "start"
    /\ \E md \in ScanDocs \cup {HeadingDoc} :
          /\ markdownContent' = md
          /\ sc' = InitScan(md)
    /\ UNCHANGED <<tokVars, handlerVars>>

\* while (i < lines.length) {...}
OldestScanOuter ==
    /\ sc.pc = "outer" /\ sc.i < Len(sc.lines)
    /\ sc' = OldestOuterStep(sc)
    /\ UNCHANGED <<markdownContent, tokVars, handlerVars>>

OldestScanMath ==
    /\ sc.pc = "math"
    /\ sc' = OldestMathStep(sc)
    /\ UNCHANGED <<markdownContent, tokVars, handlerVars>>

\* return blocks
OldestScanReturn ==
    /\ sc.pc = "outer" /\ sc.i >= Len(sc.lines)
    /\ sc' = [sc EXCEPT !.pc = "done"]
    /\ UNCHANGED <<markdownContent, tokVars, handlerVars>>

OldestScanNext == OldestScanStart \/ OldestScanOuter \/ OldestScanMath \/ OldestScanReturn
OldestScanSpec == Init /\ [][OldestScanNext]_vars

(***************************************************************************)
(* The request handler called on one request                               *)
(***************************************************************************)
\* request.method !== 'POST'
HandlerRejectMethod ==
    /\ hpc = "start"
    /\ \E r \in HandlerRequests :
          /\ r.method # "POST"
          /\ request' = r
    /\ response' = Respond(405, "Method not allowed")
    /\ hpc' = "done"
    /\ UNCHANGED <<hblocks, hi, requests, answers, tokVars, scanVars>>

\* await request.json() throws: the catch block answers 500
HandlerBadJson ==
    /\ hpc = "start"
    /\ \E r \in HandlerRequests :
          /\ r.method = "POST"
          /\ ~r.json
          /\ request' = r
    /\ response' = Respond(500, "Server Error")
    /\ hpc' = "done"
    /\ UNCHANGED <<hblocks, hi, requests, answers, tokVars, scanVars>>

HandlerMissingFields ==
    /\ hpc = "start"
    /\ \E r \in HandlerRequests :
          /\ r.method = "POST"
          /\ r.json
          /\ MissingFields(r)
          /\ request' = r
    /\ response' = Respond(400, "Missing required fields")
    /\ hpc' = "done"
    /\ UNCHANGED <<hblocks, hi, requests, answers, tokVars, scanVars>>

\* parseMarkdownWithMath(markdownContent) is called
HandlerParse ==
    /\ hpc = "start"
    /\ \E r \in HandlerRequests :
          /\ r.method = "POST"
          /\ r.json
          /\ ~MissingFields(r)
          /\ request' = r
          /\ markdownContent' = r.markdownContent
          /\ sc' = InitScan(r.markdownContent)
    /\ hpc' = "parsing"
    /\ UNCHANGED <<hblocks, hi, requests, answers, response, tokVars>>

\* the blocks are returned and the page creation request is sent
HandlerCreatePage ==
    /\ hpc = "parsing"
    /\ sc.pc = "done"
    /\ hblocks' = sc.blocks
    /\ requests' = Append(requests, PageRequest)
    /\ hpc' = "awaitPage"
    /\ UNCHANGED <<request, hi, answers, response, tokVars, scanVars>>

\* the page creation request is answered
HandlerPageAnswer ==
    /\ hpc = "awaitPage"
    /\ \E answer \in RemoteAnswers :
       /\ answers' = Append(answers, answer)
       /\ IF ~answer.fetched \/ (answer.ok /\ ~answer.json)
          THEN /\ response' = Respond(500, "Server Error")
               /\ hpc' = "done"
               /\ UNCHANGED hi
          ELSE IF ~answer.ok
          THEN /\ response' = RespondRemote("Notion API Error", answer)
               /\ hpc' = "done"
               /\ UNCHANGED hi
          ELSE /\ hi' = 0
               /\ hpc' = "loop"
               /\ UNCHANGED response
    /\ UNCHANGED <<request, hblocks, requests, tokVars, scanVars>>

\* for (let i = 0; i < blocks.length; ...): the next batch is sent
HandlerSendBatch ==
    /\ hpc = "loop"
    /\ hi < Len(hblocks)
    /\ requests' = Append(requests, AppendRequest(Batch(hblocks, hi)))
    /\ hpc' = "awaitAppend"
    /\ UNCHANGED <<request, hblocks, hi, answers, response, tokVars, scanVars>>

\* an append request is answered; i += batchSize when it is ok
HandlerAppendAnswer ==
    /\ hpc = "awaitAppend"
    /\ \E answer \in RemoteAnswers :
       /\ answers' = Append(answers, answer)
       /\ IF ~answer.fetched
          THEN /\ response' = Respond(500, "Server Error")
               /\ hpc' = "done"
               /\ UNCHANGED hi
          ELSE IF ~answer.ok
          THEN /\ response' = RespondRemote("Notion API Error appending blocks", answer)
               /\ hpc' = "done"
               /\ UNCHANGED hi
          ELSE /\ hi' = hi + batchSize
               /\ hpc' = "loop"
               /\ UNCHANGED response
    /\ UNCHANGED <<request, hblocks, requests, tokVars, scanVars>>

\* the loop is over: JSON.stringify(pageResult) with status 200
HandlerSucceed ==
    /\ hpc = "loop"
    /\ hi >= Len(hblocks)
    /\ response' = Respond(200, "page")
    /\ hpc' = "done"
    /\ UNCHANGED <<request, hblocks, hi, requests, answers, tokVars, scanVars>>

HandlerNext ==
    \/ HandlerRejectMethod
    \/ HandlerBadJson
    \/ HandlerMissingFields
    \/ HandlerParse
    \/ ScanOuter \/ ScanMath \/ ScanCode \/ ScanReturn
    \/ HandlerCreatePage
    \/ HandlerPageAnswer
    \/ HandlerSendBatch
    \/ HandlerAppendAnswer
    \/ HandlerSucceed
HandlerSpec == Init /\ [][HandlerNext]_vars

(***************************************************************************)
(* Properties of the block scanner                                         *)
(***************************************************************************)
Lines == split(markdownContent, "\n")
LineAt(k) == Lines[k + 1]
Trimmed(k) == trim(LineAt(k))
LastIndex == Len(Lines) - 1

\* the line indexes that the outer loop dispatched
DispatchedLines == {sc.consumed[j].index : j \in {j \in 1..Len(sc.consumed) : sc.consumed[j].by = "dispatch"}}
\* the steps that passed line k
PassesOf(k) == {j \in 1..Len(sc.consumed) : sc.consumed[j].index = k}
\* the blocks pushed by the outer iteration that dispatched line k
BlocksOf(k) == SelectSeq([j \in 1..Len(sc.blocks) |-> <<sc.origin[j], sc.blocks[j]>>],
                         LAMBDA p : p[1] = k)

\* a plain paragraph line or a blank line, as claim C1 lists them
PlainOrBlank(l) ==
    /\ ~startsWith(trim(l), <<"$", "$">>)
    /\ ~startsWith(trim(l), <<BACKTICK, BACKTICK, BACKTICK>>)
    /\ ~startsWith(trim(l), <<"#">>)
    /\ ~startsWith(trim(l), <<"-", " ">>)
    /\ ~startsWith(trim(l), <<"*", " ">>)
    /\ ~startsWith(trim(l), <<">", " ">>)
    /\ ~(\E d \in 1..Len(trim(l)) :
            /\ \A k \in 1..d : trim(l)[k] \in Digit
            /\ CharAt(trim(l), d) = "."
            /\ IsSpace(CharAt(trim(l), d + 1)))
    /\ trim(l) \notin {<<"-", "-", "-">>, <<"*", "*", "*">>, <<"_", "_", "_">>}

PlainDocument == \A k \in 1..Len(Lines) : PlainOrBlank(Lines[k])
NonBlankLines == SelectSeq(Lines, LAMBDA l : trim(l) # <<>>)

\* C1: for a document made only of plain paragraph lines and blank lines, the
\* scan returns one paragraph block per non-blank line, in the order of the
\* lines, each holding the tokens of its trimmed line, and no other block.
C1_ParagraphPerLine ==
    (sc.pc = "done" /\ PlainDocument) =>
        /\ Len(sc.blocks) = Len(NonBlankLines)
        /\ \A k \in 1..Len(sc.blocks) :
              sc.blocks[k] = [type |-> "paragraph",
                              rich_text |-> processRichTextMathOnly(trim(NonBlankLines[k]))]

C1_Witness ==
    /\ sc.pc = "done" /\ PlainDocument
    /\ Len(Lines) = 3 /\ Len(NonBlankLines) = 2 /\ Len(sc.blocks) = 2
    /\ Trimmed(1) = <<>>
    /\ sc.blocks[1].rich_text = <<[type |-> "text", content |-> <<"b">>]>>
    /\ sc.blocks[2].type = "paragraph"

\* C2: the scan of any document ends, returning its blocks: at every step of
\* the outer loop and of both inner loops the cursor i grows (by one), it is
\* never read past the last line, and the lines passed so far are the indexes
\* 0, 1, 2, ... in order, each passed once, by a dispatch of the outer loop, by
\* an accumulation of an inner loop, or as the closer of the construct.
C2_Consumed ==
    sc.pc \in {"outer", "math", "code", "done"} =>
        /\ sc.lines = Lines
        /\ sc.i <= Len(Lines) + 1
        /\ Len(sc.consumed) = (IF sc.i > Len(Lines) THEN Len(Lines) ELSE sc.i)
        /\ \A j \in 1..Len(sc.consumed) : sc.consumed[j].index = j - 1
        /\ sc.pc = "done" => \A k \in 0..LastIndex : Cardinality(PassesOf(k)) = 1

C2_ScanTerminates ==
    /\ [][sc.pc \in {"outer", "math", "code"} =>
             (sc'.pc = "done" /\ sc'.i = sc.i) \/ sc'.i = sc.i + 1]_vars
    /\ [](C2_Consumed)
    /\ <>(sc.pc = "done")

C2_Witness ==
    /\ sc.pc = "done" /\ Len(Lines) = 3
    /\ sc.i = Len(Lines) + 1
    /\ sc.consumed[1].by = "dispatch" /\ sc.consumed[2].by = "accumulate"
    /\ sc.consumed[3].by = "accumulate"
\* the lines that open a code fence: dispatched, and starting with the fence
CodeOpeners == {o \in DispatchedLines : startsWith(Trimmed(o), FENCE)}
\* the lines after line o whose trimmed form starts with the fence
FencesAfter(o) == {c \in (o + 1)..LastIndex : startsWith(Trimmed(c), FENCE)}
\* the raw lines k with from <= k <= to
RawLines(from, to) == SubSeq(Lines, from + 1, to + 1)
\* the language of the code block opened by line o
LanguageOf(o) ==
    IF trim(SubSeq(Trimmed(o), 4, Len(Trimmed(o)))) = <<>>
    THEN <<"p", "l", "a", "i", "n", " ", "t", "e", "x", "t">>
    ELSE trim(SubSeq(Trimmed(o), 4, Len(Trimmed(o))))
\* line c closed a construct and the scan went on with the line after it
ClosedAt(c) ==
    /\ sc.consumed[c + 1] = [index |-> c, by |-> "closer"]
    /\ BlocksOf(c) = <<>>
    /\ c < LastIndex => (c + 1) \in DispatchedLines

\* C3: a fence opened by line o and closed by line c (the first later line
\* whose trimmed form starts with the fence) gives exactly one code block,
\* whose language is the trimmed remainder of the opener, or "plain text" when
\* that is empty, and whose content is the raw lines between o and c joined
\* with \n; those lines and the closer give no block of their own, the closer
\* is passed as a closer, and the scan goes on with the line after it.
C3_TerminatedFence ==
    sc.pc = "done" =>
        \A o \in CodeOpeners : FencesAfter(o) # {} =>
            LET c == MinOf(FencesAfter(o))
            IN  /\ BlocksOf(o) =
                      <<<<o, [type |-> "code",
                              content |-> join(RawLines(o + 1, c - 1), <<"\n">>),
                              language |-> LanguageOf(o)]>>>>
                /\ \A k \in (o + 1)..(c - 1) :
                      /\ sc.consumed[k + 1] = [index |-> k, by |-> "accumulate"]
                      /\ BlocksOf(k) = <<>>
                /\ ClosedAt(c)

C3_Witness ==
    /\ sc.pc = "done" /\ Len(Lines) = 4
    /\ 0 \in CodeOpeners /\ FencesAfter(0) = {2}
    /\ Trimmed(0) = FENCE \o <<"p", "y">>
    /\ LineAt(1) = <<" ", "b", " ">>
    /\ Len(sc.blocks) = 2 /\ sc.blocks[1].type = "code" /\ sc.blocks[2].type = "paragraph"

\* C4: a fence opened by line o with no later line whose trimmed form starts
\* with the fence gives exactly one code block, the last block of the scan,
\* whose content is all the raw lines after o joined with \n; those lines give
\* no block of their own, and the scan returns.
C4_UnterminatedFence ==
    sc.pc = "done" =>
        \A o \in CodeOpeners : FencesAfter(o) = {} =>
            /\ BlocksOf(o) =
                  <<<<o, [type |-> "code",
                          content |-> join(RawLines(o + 1, LastIndex), <<"\n">>),
                          language |-> LanguageOf(o)]>>>>
            /\ sc.origin[Len(sc.blocks)] = o
            /\ \A k \in (o + 1)..LastIndex :
                  /\ sc.consumed[k + 1] = [index |-> k, by |-> "accumulate"]
                  /\ BlocksOf(k) = <<>>
            /\ sc.i = Len(Lines) + 1

C4_Witness ==
    /\ sc.pc = "done" /\ Len(Lines) = 4
    /\ 1 \in CodeOpeners /\ FencesAfter(1) = {}
    /\ LineAt(2) = <<"$", "$">> /\ LineAt(3) = <<" ", "b", " ">>
    /\ Len(sc.blocks) = 2 /\ sc.blocks[2].content = <<"$", "$", "\n", " ", "b", " ">>

\* the lines that open a multi-line display math construct
MathOpeners ==
    {o \in DispatchedLines :
        /\ startsWith(Trimmed(o), <<"$", "$">>)
        /\ ~endsWith(SubSeq(Trimmed(o), 3, Len(Trimmed(o))), <<"$", "$">>)}
\* the lines after line o whose trimmed form ends with $$
DollarsAfter(o) == {c \in (o + 1)..LastIndex : endsWith(Trimmed(c), <<"$", "$">>)}
\* the opener without its $$
RemainderOf(o) == SubSeq(Trimmed(o), 3, Len(Trimmed(o)))
\* the raw text of line c before its last $$
BeforeDollars(c) ==
    SubSeq(LineAt(c), 1,
           MaxOf({k \in 0..(Len(LineAt(c)) - 2) : SubSeq(LineAt(c), k + 1, k + 2) = <<"$", "$">>}))
NonBlank(piece) == IF trim(piece) = <<>> THEN <<>> ELSE <<trim(piece)>>
\* the pieces of the construct opened by o and closed by c
MathPieces(o, c) ==
    NonBlank(RemainderOf(o)) \o RawLines(o + 1, c - 1) \o NonBlank(BeforeDollars(c))

\* C5, as stated: a multi-line display math construct opened by line o and
\* closed by line c gives exactly one equation block, whose expression is the
\* opener remainder, the raw content lines and the text before the closing $$
\* joined with \n and trimmed; the closer gives no block and the scan goes on
\* with the line after it.
C5_OneEquation ==
    sc.pc = "done" =>
        \A o \in MathOpeners : DollarsAfter(o) # {} =>
            LET c == MinOf(DollarsAfter(o))
            IN  /\ BlocksOf(o) =
                      <<<<o, [type |-> "equation",
                              expression |->
                                  trim(join(<<RemainderOf(o)>> \o RawLines(o + 1, c - 1)
                                            \o <<BeforeDollars(c)>>, <<"\n">>))]>>>>
                /\ ClosedAt(c)

\* C5, amended: the pieces of the construct are the trimmed opener remainder
\* when it is not blank, the raw content lines, and the trimmed text before the
\* last $$ of the closer when it is not blank.  With no piece the construct
\* gives no block; otherwise it gives exactly one equation block, whose
\* expression is the pieces joined with \n and trimmed.  The content lines and
\* the closer give no block of their own and the scan goes on with the line
\* after the closer.  "$$\nE=mc^2\n$$" gives the one equation "E=mc^2".
C5_EquationOfPieces ==
    sc.pc = "done" =>
        /\ \A o \in MathOpeners : DollarsAfter(o) # {} =>
              LET c == MinOf(DollarsAfter(o))
              IN  /\ BlocksOf(o) =
                        IF MathPieces(o, c) = <<>> THEN <<>>
                        ELSE <<<<o, [type |-> "equation",
                                     expression |->
                                         trim(join(MathPieces(o, c), <<"\n">>))]>>>>
                  /\ \A k \in (o + 1)..(c - 1) :
                        /\ sc.consumed[k + 1] = [index |-> k, by |-> "accumulate"]
                        /\ BlocksOf(k) = <<>>
                  /\ ClosedAt(c)
        /\ markdownContent = EquationDoc =>
              sc.blocks = <<[type |-> "equation",
                             expression |-> <<"E", "=", "m", "c", "^", "2">>]>>

C5_Witness ==
    /\ sc.pc = "done" /\ Len(Lines) = 4
    /\ 0 \in MathOpeners /\ DollarsAfter(0) = {2}
    /\ LineAt(0) = <<"$", "$", " ", "x">>
    /\ LineAt(1) = <<" ", "b", " ">>
    /\ LineAt(2) = <<" ", "y", " ", "$", "$">>
    /\ LineAt(3) = <<" ", "b", " ">>
    /\ sc.blocks[1].expression = <<"x", "\n", " ", "b", " ", "\n", "y">>
    /\ Len(sc.blocks) = 2
(***************************************************************************)
(* Properties of the inline tokenizer                                      *)
(***************************************************************************)
Annotated(segment, format) == segment.type = "text" /\ format \in segment.annotations

\* C6, as stated: for "**a*b*c**" the output of processRichText has a bold
\* segment and no italic segment.
C6_BoldWins ==
    (tokPc = "done" /\ text = NestedLine) =>
        /\ \E k \in 1..Len(tok.richText) : Annotated(tok.richText[k], "bold")
        /\ \A k \in 1..Len(tok.richText) : ~Annotated(tok.richText[k], "italic")

\* the positions of the delimiters of a bold candidate
BoldDelimiters(b) == {b.start, b.start + 1, b.end - 2, b.end - 1}

\* C7: "**bold** and *italic*" gives three segments, bold "bold", plain
\* " and ", italic "italic"; and on every line each italic candidate begins and
\* ends with a * that has no * next to it, so that none of its delimiters is a
\* delimiter of a bold candidate.
C7_BoldThenItalic ==
    tokPc = "done" =>
        /\ text = BoldItalicLine =>
              /\ ~tok.raised
              /\ tok.richText =
                    <<[type |-> "text", content |-> <<"b", "o", "l", "d">>,
                       link |-> FALSE, url |-> <<>>, annotations |-> {"bold"}],
                      [type |-> "text", content |-> <<" ", "a", "n", "d", " ">>,
                       link |-> FALSE, url |-> <<>>, annotations |-> {}],
                      [type |-> "text", content |-> <<"i", "t", "a", "l", "i", "c">>,
                       link |-> FALSE, url |-> <<>>, annotations |-> {"italic"}]>>
        /\ \A k \in 1..Len(tok.matches) : tok.matches[k].type = "italic" =>
              /\ CharAt(tok.tempText, tok.matches[k].start) = "*"
              /\ CharAt(tok.tempText, tok.matches[k].end - 1) = "*"
              /\ CharAt(tok.tempText, tok.matches[k].start - 1) # "*"
              /\ CharAt(tok.tempText, tok.matches[k].start + 1) # "*"
              /\ CharAt(tok.tempText, tok.matches[k].end - 2) # "*"
              /\ CharAt(tok.tempText, tok.matches[k].end) # "*"
              /\ \A j \in 1..Len(tok.matches) : tok.matches[j].type = "bold" =>
                    {tok.matches[k].start, tok.matches[k].end - 1}
                        \cap BoldDelimiters(tok.matches[j]) = {}

C7_Witness ==
    /\ tokPc = "done" /\ text = BoldItalicLine
    /\ Len(tok.richText) = 3 /\ Len(tok.matches) = 2
    /\ tok.matches[1].type = "bold" /\ tok.matches[2].type = "italic"

\* the text between the first and the last character of the line
MathExpression == SubSeq(text, 2, Len(text) - 1)
\* the line is $e$ with e not blank and without $, line feed or carriage return
InlineMathOnly ==
    /\ Len(text) >= 3 /\ text[1] = "$" /\ text[Len(text)] = "$"
    /\ trim(MathExpression) # <<>>
    /\ \A k \in 1..Len(MathExpression) : MathExpression[k] \notin {"$", "\n", "\r"}

\* C8: for a line $e$ with e not blank and without $ or newline, both
\* processRichText functions return exactly one segment, the equation whose
\* expression is e trimmed, whatever formatting markers e holds.
C8_MathProtected ==
    (tokPc \in {"done", "doneMathOnly"} /\ InlineMathOnly) =>
        /\ ~tok.raised
        /\ tok.richText = <<[type |-> "equation", expression |-> trim(MathExpression)]>>

C8_Witness ==
    /\ tokPc = "done" /\ InlineMathOnly
    /\ MathExpression = <<"*", "b", "*", " ", "[", "a", "]", "(", "u", ")">>
    /\ tok.richText = <<[type |-> "equation", expression |-> MathExpression]>>

\* the pieces of a link text that are not math placeholders
TextFragments(content) ==
    SelectSeq(splitKeep(PLACEHOLDER, content, 0),
              LAMBDA f : f # <<>> /\ ~(startsWith(f, MATH_PREFIX) /\ endsWith(f, <<"_", "_">>)))

\* C9, as stated: every link accepted by processTextFormatting is in the
\* output of processRichText as a link segment with its url; when its text is
\* split around math placeholders, each remaining fragment is a link segment
\* with that url.
C9_LinksKeepUrl ==
    (tokPc = "done" /\ ~tok.raised) =>
        \A k \in 1..Len(tok.validMatches) : tok.validMatches[k].type = "link" =>
            \A j \in 1..Len(TextFragments(tok.validMatches[k].content)) :
                \E n \in 1..Len(tok.richText) :
                    /\ tok.richText[n].type = "text"
                    /\ tok.richText[n].content =
                          TextFragments(tok.validMatches[k].content)[j]
                    /\ tok.richText[n].link
                    /\ tok.richText[n].url = tok.validMatches[k].url

(***************************************************************************)
(* Properties of the request handler                                       *)
(***************************************************************************)
\* the k-th batch, k = 0, 1, ...: blocks[100k .. min(100(k+1), n) - 1]
ExpectedBatch(k) ==
    SubSeq(hblocks, 100 * k + 1,
           IF 100 * (k + 1) < Len(hblocks) THEN 100 * (k + 1) ELSE Len(hblocks))
\* ceil(n / 100)
ExpectedBatches == (Len(hblocks) + 99) \div 100
ExpectedRequests ==
    <<[method |-> "POST", url |-> "pages", hasChildren |-> FALSE, children |-> <<>>]>>
    \o [k \in 1..ExpectedBatches |->
           [method |-> "PATCH", url |-> "children", hasChildren |-> TRUE,
            children |-> ExpectedBatch(k - 1)]]
RECURSIVE ChildrenOf(_)
ChildrenOf(reqs) ==
    IF reqs = <<>> THEN <<>> ELSE Head(reqs).children \o ChildrenOf(Tail(reqs))

\* C10: the requests issued are always a prefix of: one page creation POST
\* without children, then the ceil(n/100) PATCH requests whose k-th batch is
\* blocks[100k .. min(100(k+1), n) - 1], n the number of blocks the scan
\* returned; a request is sent only when all the requests before it are
\* answered; and when the handler returns 200 all of them have been issued,
\* every batch has 1 to 100 children and the batches one after the other are
\* the blocks of the scan.
C10_BatchesInOrder ==
    /\ hpc \in {"start", "parsing"} => requests = <<>>
    /\ hpc \notin {"start", "parsing"} /\ requests # <<>> =>
          /\ sc.pc = "done" /\ hblocks = sc.blocks
          /\ Len(requests) <= Len(ExpectedRequests)
          /\ requests = SubSeq(ExpectedRequests, 1, Len(requests))
    /\ hpc = "awaitPage" => Len(requests) = 1
    /\ hpc = "loop" => 100 * (Len(requests) - 1) = hi
    /\ hpc = "awaitAppend" => 100 * (Len(requests) - 2) = hi
    /\ response.status = 200 =>
          /\ requests = ExpectedRequests
          /\ \A k \in 2..Len(requests) : Len(requests[k].children) \in 1..100
          /\ ChildrenOf(requests) = sc.blocks

C10_Witness ==
    /\ response.status = 200
    /\ Len(sc.blocks) = 201
    /\ Len(requests) = 4
    /\ Len(requests[2].children) = 100 /\ Len(requests[4].children) = 1
\* the last outcome awaited
LastAnswer == answers[Len(answers)]
\* the last outcome awaited is a remote response that is not ok
RemoteFailure == answers # <<>> /\ LastAnswer.fetched /\ ~LastAnswer.ok
Awaiting == IF hpc \in {"awaitPage", "awaitAppend"} THEN 1 ELSE 0

\* every request but the one in flight has been awaited, every outcome before
\* the last was ok, and the k-th append request carries the k-th batch
C11_NoResend ==
    /\ Len(requests) = Len(answers) + Awaiting
    /\ \A k \in 1..(Len(answers) - 1) : answers[k].fetched /\ answers[k].ok
    /\ \A k \in 2..Len(requests) :
          /\ requests[k].method = "PATCH"
          /\ requests[k].children = ExpectedBatch(k - 2)
    /\ RemoteFailure =>
          /\ hpc = "done"
          /\ response # NoResponse
          /\ Len(answers) = 1 => requests = <<ExpectedRequests[1]>>

\* the response carries the status and the body of the last outcome
Propagated ==
    /\ response.status = LastAnswer.status
    /\ response.errorData = LastAnswer.body
    /\ response.kind = (IF Len(answers) = 1 THEN "Notion API Error"
                        ELSE "Notion API Error appending blocks")

\* the body of the outcome can be read and its status can be the status of a
\* response that has a body
Relayable(answer) == answer.text /\ answer.status \notin NullBodyStatus

\* C11 as stated: every remote response that is not ok is answered with its
\* own status and body, and nothing is sent afterwards or twice.
C11_FailurePropagates ==
    /\ C11_NoResend
    /\ RemoteFailure => Propagated

C11_RelayedOrServerError ==
    /\ C11_NoResend
    /\ RemoteFailure /\ Relayable(LastAnswer) => Propagated
    /\ RemoteFailure /\ ~Relayable(LastAnswer) => response = Respond(500, "Server Error")

\* C11 (amended): when the page creation request or an append request gets a
\* remote response that is not ok, the handler returns in that step: a
\* response with the remote status and the remote body when the body can be
\* read and the status is not a null body status, a 500 Server Error
\* otherwise. Every request is awaited before the next is sent and every
\* outcome before the last is ok, so nothing is sent after a failure and a
\* failed page creation is followed by no append; the k-th append request
\* carries the k-th batch, so no batch is sent twice; once a response is
\* returned neither it nor the requests change.
C11_FailureEndsUpload ==
    /\ [](C11_RelayedOrServerError)
    /\ [][response # NoResponse => (requests' = requests /\ response' = response)]_vars

C11_Witness ==
    /\ RemoteFailure /\ Len(answers) = 3 /\ Relayable(LastAnswer)
    /\ Len(hblocks) = 201 /\ Len(requests) = 3
    /\ LastAnswer.status = 429 /\ response.status = 429
    /\ response.errorData = "rate limited"
(***************************************************************************)
(* Properties of phase 2 of the inline tokenizer                           *)
(***************************************************************************)
Intersects(a, b) == a.start < b.end /\ b.start < a.end
IsAccepted(m) == \E k \in 1..Len(tok.validMatches) : tok.validMatches[k] = m
\* a segment that is a gap between spans: no link and no annotation
IsGap(part) == ~part.link /\ part.annotations = {}

\* the number of span segments among the first j segments
RECURSIVE SpansUpTo(_, _)
SpansUpTo(parts, j) ==
    IF j = 0 THEN 0
    ELSE SpansUpTo(parts, j - 1) + (IF IsGap(parts[j]) THEN 0 ELSE 1)

\* the characters of the text the j-th segment stands for
WidthOf(parts, valid, j) ==
    IF IsGap(parts[j]) THEN Len(parts[j].content)
    ELSE valid[SpansUpTo(parts, j)].end - valid[SpansUpTo(parts, j)].start

\* the offset of the text at which the j-th segment begins when the segments
\* are laid end to end
RECURSIVE OffsetOf(_, _, _)
OffsetOf(parts, valid, j) ==
    IF j = 1 THEN 0
    ELSE OffsetOf(parts, valid, j - 1) + WidthOf(parts, valid, j - 1)

\* the characters of a span that are not in its segment: the delimiters
DelimiterWidth(type) == IF type = "bold" THEN 2 ELSE 1

\* C12: in phase 2, for every text, the accepted spans are pairwise disjoint
\* and in strictly increasing order of start; a candidate is rejected exactly
\* when it intersects a span accepted before it in the order of starts; and
\* the segments, laid end to end from offset 0, are the gaps (with the text
\* of the gap) and the accepted spans (each at its own start, with its
\* captured content), alternating so that no two gaps are adjacent, and reach
\* the end of the text: every character is in exactly one gap or span.
C12_SpansPartitionText ==
    tokPc = "done" =>
        LET t == tok.tempText
            ms == tok.matches
            vs == tok.validMatches
            ps == tok.textParts
        IN  /\ \A j, k \in 1..Len(vs) : j < k =>
                  vs[j].start < vs[k].start /\ ~Intersects(vs[j], vs[k])
            /\ \A k \in 1..Len(vs) : \E j \in 1..Len(ms) : ms[j] = vs[k]
            /\ \A k \in 1..Len(ms) :
                  ~IsAccepted(ms[k]) <=>
                      \E j \in 1..(k - 1) : IsAccepted(ms[j]) /\ Intersects(ms[k], ms[j])
            /\ \A j, k \in 1..Len(ms) : j < k => ms[j].start < ms[k].start
            /\ SpansUpTo(ps, Len(ps)) = Len(vs)
            /\ \A j \in 1..Len(ps) :
                  IF IsGap(ps[j])
                  THEN /\ ps[j].content # <<>>
                       /\ ps[j].content =
                             SubSeq(t, OffsetOf(ps, vs, j) + 1,
                                    OffsetOf(ps, vs, j) + Len(ps[j].content))
                       /\ j < Len(ps) => ~IsGap(ps[j + 1])
                  ELSE LET v == vs[SpansUpTo(ps, j)]
                       IN  /\ OffsetOf(ps, vs, j) = v.start
                           /\ ps[j] = MatchPart(v)
                           /\ v.type # "link" =>
                                 v.content = SubSeq(t, v.start + DelimiterWidth(v.type) + 1,
                                                    v.end - DelimiterWidth(v.type))
                           /\ v.type = "link" =>
                                 SubSeq(t, v.start + 1, v.end) =
                                     <<"[">> \o v.content \o <<"]", "(">> \o v.url \o <<")">>
            /\ (IF ps = <<>> THEN 0
                ELSE OffsetOf(ps, vs, Len(ps)) + WidthOf(ps, vs, Len(ps))) = Len(t)

C12_Witness ==
    /\ tokPc = "done" /\ text = OverlappingLine
    /\ Len(tok.matches) = 3 /\ Len(tok.validMatches) = 2
    /\ tok.matches[3].type = "italic" /\ ~IsAccepted(tok.matches[3])
    /\ Len(tok.textParts) = 4
    /\ IsGap(tok.textParts[2]) /\ IsGap(tok.textParts[4])
(***************************************************************************)
(* Display math on a single line                                           *)
(***************************************************************************)
\* the text between the leading $$ and the trailing $$ of line o
SingleLineExpression(o) == SubSeq(Trimmed(o), 3, Len(Trimmed(o)) - 2)
\* the dispatched lines whose trimmed form is $$expr$$ with expr not blank
SingleLineMaths ==
    {o \in DispatchedLines :
        /\ Len(Trimmed(o)) >= 4
        /\ SubSeq(Trimmed(o), 1, 2) = <<"$", "$">>
        /\ SubSeq(Trimmed(o), Len(Trimmed(o)) - 1, Len(Trimmed(o))) = <<"$", "$">>
        /\ trim(SingleLineExpression(o)) # <<>>}

\* C13: a line whose trimmed form is $$expr$$ with expr not blank gives
\* exactly one equation block, with expression expr trimmed, and the line
\* after it is not consumed into the equation: it is dispatched by the outer
\* loop.
C13_SingleLineEquation ==
    sc.pc = "done" =>
        \A o \in SingleLineMaths :
            /\ BlocksOf(o) =
                  <<<<o, [type |-> "equation",
                          expression |-> trim(SingleLineExpression(o))]>>>>
            /\ o < LastIndex => sc.consumed[o + 2] = [index |-> o + 1, by |-> "dispatch"]

(***************************************************************************)
(* Display math left open at the end of the input                          *)
(***************************************************************************)
\* the openers followed by no line whose trimmed form ends with $$
UnclosedOpeners == {o \in MathOpeners : DollarsAfter(o) = {}}
\* the equation of the opener remainder and all the lines after line o
EquationToEnd(o) ==
    [type |-> "equation",
     expression |-> trim(join(<<RemainderOf(o)>> \o RawLines(o + 1, LastIndex), <<"\n">>))]
\* the lines after line o were accumulated, and none gave a block
AccumulatedAfter(o) ==
    \A k \in (o + 1)..LastIndex :
        /\ sc.consumed[k + 1] = [index |-> k, by |-> "accumulate"]
        /\ BlocksOf(k) = <<>>

\* C14, as stated: an opener followed by no line ending with $$ gives exactly
\* one equation block, of the opener remainder and all the remaining raw
\* lines joined with \n and trimmed; the remaining lines are consumed into it
\* and give no block of their own.
C14_ClosedAtEnd ==
    sc.pc = "done" =>
        \A o \in UnclosedOpeners :
            /\ BlocksOf(o) = <<<<o, EquationToEnd(o)>>>>
            /\ AccumulatedAfter(o)

\* C14, amended: the same, except that an opener with a blank remainder that is
\* the last line of the input gives no block.  The equation, if any, is the
\* last block, and the scan returns with the cursor past the end.
C14_EquationUnlessNothingAccumulated ==
    sc.pc = "done" =>
        \A o \in UnclosedOpeners :
            /\ BlocksOf(o) =
                  IF trim(RemainderOf(o)) = <<>> /\ o = LastIndex THEN <<>>
                  ELSE <<<<o, EquationToEnd(o)>>>>
            /\ AccumulatedAfter(o)
            /\ \A j \in 1..Len(sc.origin) : sc.origin[j] <= o
            /\ Len(sc.consumed) = Len(Lines)
            /\ sc.i = Len(Lines) + 1

C14_Witness ==
    /\ sc.pc = "done" /\ Len(Lines) = 3
    /\ UnclosedOpeners = {0}
    /\ LineAt(0) = <<"$", "$", " ", "x">> /\ LineAt(1) = <<" ", "b", " ">> /\ LineAt(2) = <<>>
    /\ sc.blocks = <<[type |-> "equation", expression |-> <<"x", "\n", " ", "b">>]>>
(***************************************************************************)
(* Round trip of the math placeholders                                     *)
(***************************************************************************)
\* the field holds a placeholder token __MATH_<n>__
HoldsPlaceholder(field) == exec(PLACEHOLDER, field, 0).ok
\* the expressions of the equation segments of the output, in order
EquationsOf(richText) ==
    [k \in 1..Len(SelectSeq(richText, LAMBDA seg : seg.type = "equation")) |->
        SelectSeq(richText, LAMBDA seg : seg.type = "equation")[k].expression]

\* C15: for every line that does not contain __MATH_, processRichText returns
\* segments none of whose text content or link url holds a placeholder token,
\* and the equation segments of the output are the non-blank expressions
\* recorded in phase 1, each once and in the order of the line.
C15_PlaceholdersRestored ==
    (tokPc = "done" /\ ~includes(text, MATH_PREFIX)) =>
        /\ ~tok.raised
        /\ \A k \in 1..Len(tok.richText) : tok.richText[k].type = "text" =>
              /\ ~HoldsPlaceholder(tok.richText[k].content)
              /\ ~HoldsPlaceholder(tok.richText[k].url)
        /\ EquationsOf(tok.richText) = SelectSeq(tok.mathPlaceholders, LAMBDA e : e # <<>>)
====
